---- MODULE Spec2Model ----
(***************************************************************************)
(* Page glue of the N64 WASM front end (script.js): the readiness gate,    *)
(* the fetch / mount / launch pipeline, the save-state and load-state      *)
(* controllers and the UI wiring, together with the external Emscripten    *)
(* module and network they talk to.                                        *)
(*                                                                         *)
(* Strings are sequences of symbols.  "/" is the path separator; every     *)
(* other symbol stands for a run of characters that holds no separator.    *)
(***************************************************************************)
EXTENDS Integers, Sequences, FiniteSets, TLC

\* Number of UI events explored: button clicks plus the auto-load.
MaxEvents == 2

\* 'roms/mario64.z64', the built-in default path.
DefaultRom == <<"roms", "/", "mario64.z64">>

\* Values the ROM selector can hold (<<>> is the empty string): the script
\* takes romSelector.value as it is, a path ending in "/" included.
SelectorValues == { <<>>, <<"mario64.z64">>, <<"roms", "/">> }

\* Resource references a load can be started with.
Urls == (SelectorValues \ {<<>>}) \cup {DefaultRom}

\* Bytes the server holds for a resource (res.arrayBuffer() of a fetch(url)).
ServerBytes(url) == IF url = DefaultRom THEN <<10, 11>> ELSE <<20>>

\* The previously registered onRuntimeInitialized callback of the page or
\* module build, as an element of the callback chain (load ids are 1..).
Orig == 0

\* What an external entry point can throw: nothing, an Error object (it has
\* a message), or a value without a message property (a number, a string).
Thrown == {"none", "Error", "Value"}

----------------------------------------------------------------------------
(* Pure helpers *)

RECURSIVE SplitAcc(_, _, _)
SplitAcc(s, cur, acc) ==
  IF s = <<>> THEN Append(acc, cur)
  ELSE IF Head(s) = "/" THEN SplitAcc(Tail(s), <<>>, Append(acc, cur))
  ELSE SplitAcc(Tail(s), Append(cur, Head(s)), acc)

\* url.split('/')
Split(url) == SplitAcc(url, <<>>, <<>>)

FirstSegment(url) == Split(url)[1]

\* url.split('/').pop()
LastSegment(url) == Split(url)[Len(Split(url))]

\* '/' + filename
AbsPath(filename) == <<"/">> \o filename

Call(fn, args) == [fn |-> fn, args |-> args]

\* Status messages: <<fixed text, variable part>>.
Msg(text, detail) == <<text, detail>>

\* err.message || err : the message of an Error, else the thrown value.
MessageOrValue(kind) == IF kind = "Error" THEN <<"message">> ELSE <<"value">>

\* e.message : undefined for a thrown value that is no Error.
MessageOf(kind) == IF kind = "Error" THEN <<"message">> ELSE <<"undefined">>

----------------------------------------------------------------------------
(* State *)

VARIABLES
  phase,           \* window.Module: "absent", "declared", "loaded", "initialized"
  slot,            \* Module.onRuntimeInitialized as the chain of callbacks it
                   \*   runs when fired, in call order; <<>> when unset
  hasMain,         \* Module._main is present
  defaultRomPath,  \* const defaultRomPath
  autoLoad,        \* the page-load listener and its timer have run
  loads,           \* the loadAndStartRom invocations, in call order
  fs,              \* the module's filesystem: mount name -> bytes
  status,          \* statusEl.textContent
  mobileMode,      \* document.body has class 'mobile-mode'
  last,            \* what the most recent step did: external calls, probes
  events           \* UI events handled so far

vars == <<phase, slot, hasMain, defaultRomPath, autoLoad, loads, fs, status,
          mobileMode, last, events>>

\* A UI event is taken while the explored number of them is not exhausted.
TakeEvent == events < MaxEvents /\ events' = events + 1

Ids == 1..MaxEvents

ModuleUp == phase \in {"loaded", "initialized"}

NoStatus == Msg("", <<>>)

Step(op, id, probe, calls, threw, escaped, resolved, result) ==
  [op |-> op, id |-> id, probe |-> probe, calls |-> calls, threw |-> threw,
   escaped |-> escaped, resolved |-> resolved, result |-> result]

Quiet(op, id) == Step(op, id, {}, <<>>, "none", FALSE, FALSE, <<>>)

IdleUnordered == TRUE

\* A queued microtask (the continuation of a callback whose mount resolved)
\* runs before the event loop takes its next task.
Idle == \A i \in DOMAIN loads : loads[i].pc # "mounted"

Init ==
  /\ phase = "absent"
  /\ slot = <<>>
  /\ hasMain = FALSE
  /\ \E v \in SelectorValues : defaultRomPath = IF v = <<>> THEN DefaultRom ELSE v
  /\ autoLoad = FALSE
  /\ loads = <<>>
  /\ fs = <<>>
  /\ status = NoStatus
  /\ mobileMode = FALSE
  /\ last = Quiet("init", 0)
  /\ events = 0

----------------------------------------------------------------------------
(* The external module *)

\* The page declares `var Module = {...}`, with or without a callback.
ModuleDeclare ==
  /\ Idle
  /\ phase = "absent"
  /\ phase' = "declared"
  /\ \E withCallback \in BOOLEAN :
       slot' = IF withCallback THEN <<Orig>> ELSE <<>>
  /\ last' = Quiet("moduleDeclare", 0)
  /\ UNCHANGED <<hasMain, defaultRomPath, autoLoad, loads, fs, status, mobileMode, events>>

\* The wasm wrapper script runs: the module's functions and exports appear.
ModuleLoad ==
  /\ Idle
  /\ phase \in {"absent", "declared"}
  /\ phase' = "loaded"
  /\ \E main \in BOOLEAN : hasMain' = main
  /\ \E withCallback \in BOOLEAN :
       slot' = IF slot = <<>> /\ withCallback THEN <<Orig>> ELSE slot
  /\ last' = Quiet("moduleLoad", 0)
  /\ UNCHANGED <<defaultRomPath, autoLoad, loads, fs, status, mobileMode, events>>


----------------------------------------------------------------------------
(* whenModuleReady *)

\* Which of the three branches of whenModuleReady a call takes.
GateStrategy(present, slotSet, main) ==
  IF present /\ slotSet THEN "chain"
  ELSE IF present /\ main THEN "timeout"
  ELSE "poll"

\* whenModuleReady has no return statement.
GateReturns == "undefined"

\* `await v` inside the try block of loadAndStartRom keeps the block open
\* only while v is a pending promise.
TryStaysOpen(v) == v = "pending promise"

PollDetectsModuleOnly(present, slotSet, main) == present

\* The condition a tick of the polling interval tests.
PollDetects(present, slotSet, main) == present /\ (slotSet \/ main)

InvokeRearmed(ld) == [ld EXCEPT !.pc = "timer", !.signals = @ + 1]

\* cb(): the async callback runs up to its first await, inside mountRomToFS:
\* it has set the status and issued the fetch.
Invoke(ld) == [ld EXCEPT !.pc = "fetching", !.signals = @ + 1]

FetchCall(ld) == Call("fetch", <<ld.url>>)

NewLoad(url, strategy) ==
  [url |-> url,
   filename |-> LastSegment(url),
   pc |-> CASE strategy = "chain" -> "chained"
            [] strategy = "timeout" -> "timer"
            [] OTHER -> "polling",
   tryOpen |-> TryStaysOpen(GateReturns),
   signals |-> 0,
   res |-> "none",
   injects |-> 0,
   mount |-> "pending",
   mounted |-> <<>>,
   launches |-> 0]

\* loadAndStartRom(url), up to the point where it returns to the event loop.
LoadAndStartRom(url) ==
  LET id == Len(loads) + 1
      strategy == GateStrategy(phase # "absent", slot # <<>>, hasMain)
  IN /\ Idle
     /\ TakeEvent
     /\ loads' = Append(loads, NewLoad(url, strategy))
     /\ slot' = IF strategy = "chain" THEN Append(slot, id) ELSE slot
     /\ last' = Quiet("loadAndStartRom", id)
     /\ UNCHANGED <<phase, hasMain, defaultRomPath, fs, status, mobileMode>>

\* loadBtn click: the selector's current value, or the default path.
ClickLoad ==
  /\ \E v \in SelectorValues :
       LoadAndStartRom(IF v = <<>> THEN defaultRomPath ELSE v)
  /\ UNCHANGED autoLoad

\* window 'load' event, then its 150 ms timer: loadAndStartRom(defaultRomPath).
\* Nothing the glue can observe happens between the two.
AutoLoad ==
  /\ ~autoLoad
  /\ autoLoad' = TRUE
  /\ LoadAndStartRom(defaultRomPath)

\* A tick of the 50 ms polling interval of load i.
PollTick(i) ==
  /\ Idle
  /\ i \in DOMAIN loads
  /\ loads[i].pc = "polling"
  /\ PollDetects(phase # "absent", slot # <<>>, hasMain)
  /\ loads' = [loads EXCEPT ![i].pc = "timer"]
  /\ last' = Quiet("pollTick", i)
  /\ UNCHANGED <<phase, slot, hasMain, defaultRomPath, autoLoad, fs, status, mobileMode, events>>

\* setTimeout(cb, 50) or setTimeout(cb, 10) of load i fires.
TimerFire(i) ==
  /\ Idle
  /\ i \in DOMAIN loads
  /\ loads[i].pc = "timer"
  /\ loads' = [loads EXCEPT ![i] = Invoke(@)]
  /\ status' = Msg("Fetching ROM: ", loads[i].url)
  /\ last' = Step("cb", i, {}, <<FetchCall(loads[i])>>, "none", FALSE, FALSE, <<>>)
  /\ UNCHANGED <<phase, slot, hasMain, defaultRomPath, autoLoad, fs, mobileMode, events>>

\* The load ids among the callbacks of a chain, in call order.
ChainIds(chain) == SelectSeq(chain, LAMBDA c : c # Orig)

\* prev(), for the callback the page or the module build had registered.
RunOrig(throws) ==
  [calls |-> <<Call("prev", <<>>)>>, signaled |-> <<>>, threw |-> throws]

WrapperUnguarded(prev, id) ==
  IF prev.threw # "none" THEN prev
  ELSE [calls |-> prev.calls \o <<FetchCall(loads[id])>>,
        signaled |-> Append(prev.signaled, id), threw |-> "none"]

\* function(){ try { prev(); } catch(e){} cb(); } with `prev` the outcome of
\* running the function it replaced.  cb is an async function: it returns a
\* promise and never throws into the wrapper.
Wrapper(prev, id) ==
  [calls |-> prev.calls \o <<FetchCall(loads[id])>>,
   signaled |-> Append(prev.signaled, id), threw |-> "none"]

\* Running the function held by the slot: the innermost prev is the
\* original callback, each later gate call wrapped the function before it.
RECURSIVE FireSlot(_, _)
FireSlot(chain, throws) ==
  IF Len(chain) = 1 THEN RunOrig(throws)
  ELSE Wrapper(FireSlot(SubSeq(chain, 1, Len(chain) - 1), throws),
               chain[Len(chain)])

\* The module finishes initialising and fires Module.onRuntimeInitialized
\* (once).  Whether the original callback throws is the page's business; it
\* is only observed through a wrapper.
ModuleInit ==
  /\ Idle
  /\ phase = "loaded"
  /\ phase' = "initialized"
  /\ \E origThrows \in {"none", "Error"} :
       LET f == IF slot = <<>>
                THEN [calls |-> <<>>, signaled |-> <<>>, threw |-> "none"]
                ELSE FireSlot(slot, origThrows)
           times(i) == Len(SelectSeq(f.signaled, LAMBDA c : c = i))
       IN /\ Len(slot) <= 1 => origThrows = "none"
          /\ loads' = [i \in DOMAIN loads |->
                         IF times(i) = 0 THEN loads[i]
                         ELSE [Invoke(loads[i]) EXCEPT
                                 !.signals = loads[i].signals + times(i)]]
          /\ status' = IF f.signaled = <<>> THEN status
                       ELSE Msg("Fetching ROM: ",
                                loads[f.signaled[Len(f.signaled)]].url)
          /\ last' = Step("moduleInit", 0, {}, f.calls, origThrows,
                          f.threw # "none", FALSE, <<>>)
  /\ UNCHANGED <<slot, hasMain, defaultRomPath, autoLoad, fs, mobileMode, events>>


----------------------------------------------------------------------------
(* mountRomToFS, startEmulator and the callback of loadAndStartRom *)

ModuleFsFns == {"FS_createDataFile", "FS_unlink"}
LaunchFns == {"startEmulator", "callMain", "run"}

\* The module-level functions exist only once the wrapper script has run.
ModuleLevel(fns) == fns \cap {"FS_createDataFile", "FS_unlink", "callMain",
                              "_save_state", "_load_state"}

Probes(fns) == {S \in SUBSET fns : ModuleLevel(S) # {} => ModuleUp}

ResponseCheckNone(outcome) == "continue"

\* if (!res.ok) throw new Error('HTTP ' + res.status); a response whose
\* status is a success goes on to res.arrayBuffer().
ResponseCheck(outcome) == IF outcome = "ok" THEN "continue" ELSE "throw"

Remove(files, path) == [p \in DOMAIN files \ {path} |-> files[p]]

PutAppend(files, path, data) ==
  [p \in DOMAIN files \cup {path} |->
     IF p # path THEN files[p]
     ELSE IF p \in DOMAIN files THEN files[p] \o data ELSE data]

\* The file FS_createDataFile leaves at path when it returns.
Put(files, path, data) ==
  [p \in DOMAIN files \cup {path} |-> IF p = path THEN data ELSE files[p]]

\* The arguments of the injection call.
InjectArgs(filename, data) == <<"/", filename, data, TRUE, TRUE>>

TryUnlinkRethrow(files, path, present) ==
  IF "FS_unlink" \in present /\ path \in DOMAIN files
  THEN [calls |-> <<Call("FS_unlink", <<path>>)>>, fs |-> Remove(files, path),
        threw |-> "none"]
  ELSE [calls |-> IF "FS_unlink" \in present
                  THEN <<Call("FS_unlink", <<path>>)>> ELSE <<>>,
        fs |-> files, threw |-> "Error"]

\* try { Module.FS_unlink('/' + filename); } catch(e){} : a missing
\* primitive (a TypeError) and a missing file both end in the empty catch.
TryUnlink(files, path, present) ==
  IF "FS_unlink" \in present
  THEN [calls |-> <<Call("FS_unlink", <<path>>)>>,
        fs |-> IF path \in DOMAIN files THEN Remove(files, path) ELSE files,
        threw |-> "none"]
  ELSE [calls |-> <<>>, fs |-> files, threw |-> "none"]

\* mountRomToFS from the point where the payload is in hand: the capability
\* test, the swallowed unlink, the injection, the status and the result.
\* Whatever is thrown inside the outer try block is logged and rethrown.
MountRom(files, filename, data, modulePresent, present, createThrows) ==
  IF ~modulePresent \/ "FS_createDataFile" \notin present
  THEN [calls |-> <<>>, fs |-> files, status |-> NoStatus, resolved |-> FALSE,
        result |-> <<>>, threw |-> "CapabilityMissing"]
  ELSE LET path == AbsPath(filename)
           u == TryUnlink(files, path, present)
           calls == u.calls \o <<Call("FS_createDataFile", InjectArgs(filename, data))>>
       IN IF u.threw # "none"
          THEN [calls |-> u.calls, fs |-> u.fs, status |-> NoStatus,
                resolved |-> FALSE, result |-> <<>>, threw |-> u.threw]
          ELSE IF createThrows # "none"
          THEN [calls |-> calls, fs |-> u.fs, status |-> NoStatus,
                resolved |-> FALSE, result |-> <<>>, threw |-> createThrows]
          ELSE [calls |-> calls, fs |-> Put(u.fs, path, data),
                status |-> Msg("ROM mounted: ", filename),
                resolved |-> TRUE, result |-> filename, threw |-> "none"]

ChooseLaunchRunFirst(present) ==
  IF "run" \in present THEN "run"
  ELSE IF "callMain" \in present THEN "callMain"
  ELSE IF "startEmulator" \in present THEN "startEmulator"
  ELSE "none"

ChooseLaunchDefaultRun(present) ==
  IF "startEmulator" \in present THEN "startEmulator"
  ELSE IF "callMain" \in present THEN "callMain"
  ELSE "run"

\* The candidate startEmulator settles on: the first present one.
ChooseLaunch(present) ==
  IF "startEmulator" \in present THEN "startEmulator"
  ELSE IF "callMain" \in present THEN "callMain"
  ELSE IF "run" \in present THEN "run"
  ELSE "none"

\* The argument list each candidate is called with.
LaunchArgs(fn, filename) ==
  IF fn = "callMain" THEN << <<AbsPath(filename)>> >> ELSE <<AbsPath(filename)>>

StartCatchSilent(kind) == Msg("Starting emulator: ", <<>>)

\* The status startEmulator leaves once the chosen entry point has thrown.
StartCatch(kind) == Msg("Start failed: ", MessageOrValue(kind))

\* startEmulator(filename).  `throws` is what the chosen entry point does.
\* With no page-level startEmulator and no Module global, the probe of
\* Module.callMain is itself a ReferenceError, caught like any other.
StartEmulator(filename, modulePresent, present, throws) ==
  LET pick == ChooseLaunch(present)
  IN IF "startEmulator" \notin present /\ ~modulePresent
     THEN [calls |-> <<>>, status |-> StartCatch("Error"), threw |-> "Error",
           escaped |-> FALSE]
     ELSE IF pick = "none"
     THEN [calls |-> <<>>, status |-> Msg("Emulator start function not found", <<>>),
           threw |-> "none", escaped |-> FALSE]
     ELSE [calls |-> <<Call(pick, LaunchArgs(pick, filename))>>,
           status |-> IF throws = "none"
                      THEN Msg("Starting emulator: ", filename)
                      ELSE StartCatch(throws),
           threw |-> throws, escaped |-> FALSE]

AwaitMountAlways(resolved) == "continue"

\* `const mounted = await mountRomToFS(url, filename)`: the callback goes on
\* to startEmulator(mounted) only when the mount resolved.
AwaitMount(resolved) == IF resolved THEN "continue" ELSE "throw"

\* A rejection of the callback's promise reaches the catch block of
\* loadAndStartRom only if its try block is still open.
Rejected(ld) == [ld EXCEPT !.pc = IF ld.tryOpen THEN "caught" ELSE "rejected"]

RejectStatus(ld, kind, old) ==
  IF ld.tryOpen THEN Msg("Error loading ROM: ", MessageOrValue(kind)) ELSE old

\* `await fetch(url)` of load i settles.
FetchSettle(i) ==
  /\ Idle
  /\ i \in DOMAIN loads
  /\ loads[i].pc = "fetching"
  /\ \E outcome \in {"ok", "http", "network"} :
       LET ld == [loads[i] EXCEPT !.res = outcome]
           fails == outcome = "network" \/ ResponseCheck(outcome) = "throw"
       IN /\ loads' = [loads EXCEPT ![i] =
                         IF fails THEN Rejected([ld EXCEPT !.mount = "threw"])
                         ELSE [ld EXCEPT !.pc = "reading"]]
          /\ status' = IF fails THEN RejectStatus(ld, "Error", status) ELSE status
          /\ last' = Step("fetchSettle", i, {}, <<>>,
                          IF fails THEN "Error" ELSE "none",
                          fails /\ ~ld.tryOpen, FALSE, <<>>)
  /\ UNCHANGED <<phase, slot, hasMain, defaultRomPath, autoLoad, fs, mobileMode, events>>

Count(calls, fns) == Len(SelectSeq(calls, LAMBDA c : c.fn \in fns))

\* `await res.arrayBuffer()` of load i settles: the rest of mountRomToFS
\* runs without a further suspension point.  The environment decides which
\* functions are present and whether the injection throws; the choices the
\* step never consults are left at their defaults.
MountSettle(i) ==
  /\ Idle
  /\ i \in DOMAIN loads
  /\ loads[i].pc = "reading"
  /\ \E fsFns \in Probes(ModuleFsFns), createThrows \in {"none", "Error"} :
       LET ld == loads[i]
           m == MountRom(fs, ld.filename, ServerBytes(ld.url), phase # "absent",
                         fsFns, createThrows)
           ld1 == [ld EXCEPT !.injects = @ + Count(m.calls, {"FS_createDataFile"}),
                             !.mount = IF m.resolved THEN "resolved" ELSE "threw",
                             !.mounted = m.result]
           goesOn == AwaitMount(m.resolved) = "continue"
           kind == IF m.threw = "CapabilityMissing" THEN "Error" ELSE m.threw
       IN /\ m.calls = <<>> => (fsFns = {} /\ createThrows = "none")
          /\ loads' = [loads EXCEPT ![i] =
                         IF goesOn THEN [ld1 EXCEPT !.pc = "mounted"]
                         ELSE Rejected(ld1)]
          /\ fs' = m.fs
          /\ status' = IF m.resolved THEN m.status
                       ELSE IF goesOn THEN status
                       ELSE RejectStatus(ld, kind, status)
          /\ last' = Step("mountRomToFS", i, fsFns, m.calls, m.threw,
                          ~goesOn /\ ~ld.tryOpen, m.resolved, m.result)
  /\ UNCHANGED <<phase, slot, hasMain, defaultRomPath, autoLoad, mobileMode, events>>

\* The continuation of the callback of load i, a microtask queued when its
\* mount resolved: startEmulator(mounted).
Launch(i) ==
  /\ i \in DOMAIN loads
  /\ loads[i].pc = "mounted"
  /\ \E launchFns \in Probes(LaunchFns), throws \in Thrown :
       LET ld == loads[i]
           s == StartEmulator(ld.mounted, phase # "absent", launchFns, throws)
       IN /\ s.calls = <<>> => throws = "none"
          /\ loads' = [loads EXCEPT ![i].pc = "done",
                                    ![i].launches = @ + Count(s.calls, LaunchFns)]
          /\ status' = s.status
          /\ last' = Step("startEmulator", i, launchFns, s.calls, s.threw,
                          s.escaped, FALSE, <<>>)
  /\ UNCHANGED <<phase, slot, hasMain, defaultRomPath, autoLoad, fs, mobileMode, events>>

----------------------------------------------------------------------------
(* saveState, loadState, the mobile toggle *)

ModuleStateFn(kind) == IF kind = "save" THEN "_save_state" ELSE "_load_state"
PageStateFn(kind) == IF kind = "save" THEN "save_state" ELSE "load_state"
StateFns(kind) == {ModuleStateFn(kind), PageStateFn(kind)}

ChooseStatePageFirst(kind, present) ==
  IF PageStateFn(kind) \in present THEN PageStateFn(kind)
  ELSE IF ModuleStateFn(kind) \in present THEN ModuleStateFn(kind)
  ELSE "none"

\* The function saveState / loadState settles on: module-level first.
ChooseState(kind, present) ==
  IF ModuleStateFn(kind) \in present THEN ModuleStateFn(kind)
  ELSE IF PageStateFn(kind) \in present THEN PageStateFn(kind)
  ELSE "none"

StateDone(kind, fn) ==
  Msg(IF kind = "save" THEN "Saved state via " ELSE "Loaded state via ", <<fn>>)

StateMissing(kind) ==
  Msg(IF kind = "save" THEN "No save-state API found in WASM"
      ELSE "No load-state API found in WASM", <<>>)

\* The status the catch block of saveState / loadState leaves.
StateCatch(kind, thrown) ==
  Msg(IF kind = "save" THEN "Save failed: " ELSE "Load state failed: ",
      MessageOf(thrown))

\* saveState() / loadState().  Without a Module global the first probe,
\* typeof Module._save_state, is a ReferenceError inside the try block.
StateOp(kind, modulePresent, present, throws) ==
  LET pick == ChooseState(kind, present)
  IN IF ~modulePresent
     THEN [calls |-> <<>>, status |-> StateCatch(kind, "Error"), threw |-> "Error"]
     ELSE IF pick = "none"
     THEN [calls |-> <<>>, status |-> StateMissing(kind), threw |-> "none"]
     ELSE [calls |-> <<Call(pick, <<>>)>>,
           status |-> IF throws = "none" THEN StateDone(kind, pick)
                      ELSE StateCatch(kind, throws),
           threw |-> throws]

ClickState(kind) ==
  /\ Idle
  /\ TakeEvent
  /\ \E present \in Probes(StateFns(kind)), throws \in Thrown :
       LET r == StateOp(kind, phase # "absent", present, throws)
       IN /\ (phase = "absent" \/ ChooseState(kind, present) = "none")
               => throws = "none"
          /\ status' = r.status
          /\ last' = Step(IF kind = "save" THEN "saveState" ELSE "loadState", 0,
                          present, r.calls, r.threw, FALSE, FALSE, <<>>)
  /\ UNCHANGED <<phase, slot, hasMain, defaultRomPath, autoLoad, loads, fs, mobileMode>>

\* saveBtn click
ClickSave == ClickState("save")

\* loadStateBtn click
ClickLoadState == ClickState("load")

ToggleClassAdd(on) == TRUE

\* classList.toggle('mobile-mode'): removes the class if present, adds it
\* if not.
ToggleClass(on) == ~on

\* mobileBtn click.  The step records the flag it found.
ClickMobile ==
  /\ Idle
  /\ TakeEvent
  /\ mobileMode' = ToggleClass(mobileMode)
  /\ last' = Step("toggle", 0, {}, <<>>, "none", FALSE, FALSE, <<mobileMode>>)
  /\ UNCHANGED <<phase, slot, hasMain, defaultRomPath, autoLoad, loads, fs, status>>

----------------------------------------------------------------------------

Next ==
  \/ ModuleDeclare
  \/ ModuleLoad
  \/ ModuleInit
  \/ ClickLoad
  \/ AutoLoad
  \/ \E i \in Ids : PollTick(i)
  \/ \E i \in Ids : TimerFire(i)
  \/ \E i \in Ids : FetchSettle(i)
  \/ \E i \in Ids : MountSettle(i)
  \/ \E i \in Ids : Launch(i)
  \/ ClickSave
  \/ ClickLoadState
  \/ ClickMobile

Spec == Init /\ [][Next]_vars


----------------------------------------------------------------------------
(* Properties *)

Range(f) == {f[k] : k \in DOMAIN f}

FsFnCalls(calls) == Count(calls, ModuleFsFns)

LoadFailed(ld) == ld.pc \in {"rejected", "caught"}

\* f is the text of url after its last "/" (all of url when it has none).
IsLastSegment(url, f) ==
  /\ "/" \notin Range(f)
  /\ \E k \in 0..Len(url) :
       /\ SubSeq(url, k + 1, Len(url)) = f
       /\ k = 0 \/ url[k] = "/"

\* C1: every error of a load pipeline (fetch failure, missing injection
\* primitive, injection exception) is caught by the pipeline and shown as
\* 'Error loading ROM: ...'; none is left as an unhandled rejection.
C1_PipelineErrorsCaught ==
  /\ \A i \in DOMAIN loads : loads[i].pc # "rejected"
  /\ (last.op \in {"fetchSettle", "mountRomToFS"} /\ last.threw # "none")
       => (~last.escaped /\ status[1] = "Error loading ROM: ")

\* C2: once the gate has signaled ready to one caller, a later call to the
\* gate neither chains onto the callback slot (waiting for a further module
\* event) nor starts a polling interval: it signals after its fixed delay.
C2_ReadinessMonotonic ==
  [][(/\ Len(loads') = Len(loads) + 1
      /\ \E j \in DOMAIN loads : loads[j].signals > 0)
       => loads'[Len(loads')].pc = "timer"]_vars

\* C3: a load invocation calls a launch primitive only after its own mount
\* has resolved, its injection done; an invocation whose mount threw calls
\* no launch primitive and ends there.
C3_LaunchAfterMount ==
  \A i \in DOMAIN loads :
    /\ loads[i].launches > 0 => (loads[i].mount = "resolved" /\ loads[i].injects = 1)
    /\ loads[i].pc \in {"mounted", "done"} => loads[i].mount = "resolved"
    /\ loads[i].mount = "threw" => (loads[i].launches = 0 /\ LoadFailed(loads[i]))
    /\ (last.op = "startEmulator" /\ last.id = i)
         => (loads[i].mount = "resolved" /\ loads[i].injects = 1)

C3_Witness ==
  \E i, j \in DOMAIN loads :
    /\ loads[i].launches = 1 /\ loads[i].pc = "done"
    /\ loads[j].mount = "threw" /\ loads[j].res = "ok"


\* C4: a mount whose fetch returned a non-success HTTP status fails, calls
\* neither FS_createDataFile nor FS_unlink, and leaves the filesystem as it
\* was.
C4_NoInjectOnHttpError ==
  /\ [](\A i \in DOMAIN loads :
          loads[i].res = "http" =>
            /\ LoadFailed(loads[i])
            /\ loads[i].mount = "threw"
            /\ loads[i].injects = 0
            /\ last.id = i => FsFnCalls(last.calls) = 0)
  /\ [][\A i \in DOMAIN loads :
          (loads[i].res # "http" /\ loads'[i].res = "http") => fs' = fs]_vars

C4_Witness ==
  /\ last.op = "fetchSettle"
  /\ loads[last.id].res = "http"
  /\ fs # <<>>

\* The injection call of the mount step just taken, if there is one.
InjectCalls == SelectSeq(last.calls, LAMBDA c : c.fn = "FS_createDataFile")

\* Exactly one injection call: at '/', under the last segment of the url,
\* with the whole payload, readable and writable.
InjectedOnce(url) ==
  /\ Len(InjectCalls) = 1
  /\ InjectCalls[1].args[1] = "/"
  /\ IsLastSegment(url, InjectCalls[1].args[2])
  /\ InjectCalls[1].args[3] = ServerBytes(url)
  /\ InjectCalls[1].args[4] = TRUE
  /\ InjectCalls[1].args[5] = TRUE

MountReachedInjection ==
  /\ last.op = "mountRomToFS"
  /\ loads[last.id].res = "ok"
  /\ "FS_createDataFile" \in last.probe

\* C5 as claimed: after a successful fetch with FS_createDataFile present,
\* the mount resolves to the last segment of the url and the injection is
\* called exactly once with that name, the payload and both flags true.
C5_MountResolvesToLastSegment ==
  MountReachedInjection =>
    /\ last.resolved
    /\ IsLastSegment(loads[last.id].url, last.result)
    /\ InjectedOnce(loads[last.id].url)

\* C5 as amended: after a successful fetch with FS_createDataFile present,
\* the injection is called exactly once with the last segment of the url,
\* the payload and both flags true; the mount resolves to that segment when
\* the call returns, and rejects when the call throws.
C5_MountInjectsLastSegment ==
  MountReachedInjection =>
    /\ InjectedOnce(loads[last.id].url)
    /\ last.threw = "none" =>
         (last.resolved /\ IsLastSegment(loads[last.id].url, last.result))
    /\ last.threw # "none" => (~last.resolved /\ LoadFailed(loads[last.id]))

C5_Witness ==
  /\ MountReachedInjection
  /\ last.resolved
  /\ loads[last.id].url = DefaultRom
  /\ fs[AbsPath(last.result)] = ServerBytes(DefaultRom)

\* The launch call the claim expects for a set of present primitives.
ExpectedLaunch(present, path) ==
  IF "startEmulator" \in present THEN <<"startEmulator", <<path>> >>
  ELSE IF "callMain" \in present THEN <<"callMain", << <<path>> >> >>
  ELSE IF "run" \in present THEN <<"run", <<path>> >>
  ELSE <<"none", <<>> >>

\* C6: startEmulator calls at most one launch primitive: the first present
\* one of page-level startEmulator, Module.callMain, page-level run, with
\* '/' + filename as its only argument (inside a list for callMain).
C6_FirstPresentLaunch ==
  last.op = "startEmulator" =>
    LET want == ExpectedLaunch(last.probe, <<"/">> \o loads[last.id].filename)
    IN /\ Len(last.calls) <= 1
       /\ want[1] = "none" <=> last.calls = <<>>
       /\ want[1] # "none" =>
            /\ last.calls[1].fn = want[1]
            /\ last.calls[1].args = want[2]

C6_Witness ==
  /\ last.op = "startEmulator"
  /\ last.probe = {"callMain"}
  /\ Len(last.calls) = 1
  /\ last.calls[1].fn = "callMain"

\* C7: with none of the three launch primitives present, startEmulator
\* calls nothing, leaves 'Emulator start function not found' as the status
\* and returns normally.
C7_NoLaunchPrimitive ==
  (last.op = "startEmulator" /\ last.probe = {}) =>
    /\ last.calls = <<>>
    /\ status = Msg("Emulator start function not found", <<>>)
    /\ last.threw = "none"
    /\ ~last.escaped
    /\ loads[last.id].pc = "done"
    /\ loads[last.id].launches = 0

C7_Witness ==
  /\ last.op = "startEmulator"
  /\ last.probe = {}
  /\ loads[last.id].pc = "done"

StateOps == {"saveState", "loadState"}

KindOf(op) == IF op = "saveState" THEN "save" ELSE "load"

\* C8: when the module-level and the page-level state function both exist,
\* saveState / loadState calls the module-level one once and the page-level
\* one not at all.
C8_ModuleLevelFirst ==
  (last.op \in StateOps /\ StateFns(KindOf(last.op)) \subseteq last.probe) =>
    /\ Len(last.calls) = 1
    /\ last.calls[1].fn = ModuleStateFn(KindOf(last.op))

C8_Witness ==
  /\ last.op = "saveState"
  /\ last.probe = {"_save_state", "save_state"}
  /\ Len(last.calls) = 1

FailureText(op) ==
  CASE op = "startEmulator" -> "Start failed: "
    [] op = "saveState" -> "Save failed: "
    [] op = "loadState" -> "Load state failed: "

EntryPointThrew ==
  /\ last.op \in StateOps \cup {"startEmulator"}
  /\ last.calls # <<>>
  /\ last.threw # "none"

C10_GateSignals ==
  (phase = "initialized" /\ (slot # <<>> \/ hasMain)) =>
    \A i \in DOMAIN loads :
      loads[i].signals > 0 \/ loads[i].pc \in {"timer", "polling"}

MissingText(op) ==
  IF op = "saveState" THEN "No save-state API found in WASM"
  ELSE "No load-state API found in WASM"

\* C11: whenever no module-level state function is available, the Module
\* global not existing at all included, saveState / loadState calls the
\* page-level function if it is present, and otherwise leaves the
\* capability-missing status, not a failure status.
C11_StateFallback ==
  (last.op \in StateOps /\ ModuleStateFn(KindOf(last.op)) \notin last.probe) =>
    IF PageStateFn(KindOf(last.op)) \in last.probe
    THEN /\ Len(last.calls) = 1
         /\ last.calls[1].fn = PageStateFn(KindOf(last.op))
    ELSE /\ last.calls = <<>>
         /\ status = Msg(MissingText(last.op), <<>>)

PrevCalls == SelectSeq(last.calls, LAMBDA c : c.fn = "prev")

\* C12: a gate call made while the slot holds a callback wraps it; when the
\* slot is fired the previously registered callback is invoked first and
\* exactly once, and every wrapped gate call is then signaled, in call
\* order, also when the previous callback throws.
C12_ChainedWrapper ==
  /\ [](( last.op = "moduleInit" /\ ChainIds(slot) # <<>>) =>
          /\ Len(PrevCalls) = 1
          /\ last.calls[1].fn = "prev"
          /\ ~last.escaped
          /\ Len(last.calls) = 1 + Len(ChainIds(slot))
          /\ \A k \in 1..Len(ChainIds(slot)) :
               /\ loads[ChainIds(slot)[k]].signals = 1
               /\ last.calls[k + 1] = [fn |-> "fetch",
                                       args |-> <<loads[ChainIds(slot)[k]].url>>])
  /\ [][(Len(loads') = Len(loads) + 1 /\ phase # "absent" /\ slot # <<>>)
          => (slot' = Append(slot, Len(loads')) /\ slot'[1] = slot[1])]_vars

C12_Witness ==
  /\ last.op = "moduleInit"
  /\ last.threw = "Error"
  /\ Len(ChainIds(slot)) = 2
  /\ \A i \in DOMAIN loads : loads[i].signals = 1

\* The Module global exists and exposes onRuntimeInitialized or _main.
GateSignalsSeen == phase # "absent" /\ (slot # <<>> \/ hasMain)

PipelineCalls(calls) == Count(calls, {"fetch"} \cup ModuleFsFns \cup LaunchFns)

\* C13: while the Module global is absent or exposes neither a callback
\* slot nor _main, the gate has signaled no caller, so no load has fetched,
\* touched the filesystem or launched, and every gate call is still polling;
\* a polling interval ends only at a tick that observes one of the signals,
\* which arms the callback's timer.
C13_NoSignalWithoutModule ==
  /\ [](~GateSignalsSeen =>
          /\ fs = <<>>
          /\ PipelineCalls(last.calls) = 0
          /\ \A i \in DOMAIN loads :
               /\ loads[i].pc = "polling"
               /\ loads[i].signals = 0
               /\ loads[i].res = "none"
               /\ loads[i].injects = 0
               /\ loads[i].launches = 0)
  /\ [][\A i \in DOMAIN loads :
          loads[i].pc = "polling" =>
            \/ loads'[i].pc = "polling"
            \/ /\ GateSignalsSeen
               /\ last'.op = "pollTick" /\ last'.id = i
               /\ loads'[i].pc = "timer"
               /\ loads'[i].signals = 0]_vars

C13_Witness ==
  /\ last.op = "pollTick"
  /\ loads[last.id].pc = "timer"
  /\ \E j \in DOMAIN loads : loads[j].pc = "polling"

\* The mount step just taken got as far as the injection test.
MountStepNext ==
  last'.op = "mountRomToFS" /\ "FS_createDataFile" \in last'.probe

MountPathNext == AbsPath(loads[last'.id].filename)

\* The removal of the step just taken had nothing to remove or was absent.
RemovalFailedNext ==
  "FS_unlink" \notin last'.probe \/ MountPathNext \notin DOMAIN fs

\* After a mount that resolved, the file at the mount path is the payload,
\* whatever was there before, and every other file is as it was.
MountedPayloadNext ==
  last'.resolved =>
    fs' = [p \in DOMAIN fs \cup {MountPathNext} |->
             IF p = MountPathNext THEN ServerBytes(loads[last'.id].url)
             ELSE fs[p]]

\* C14 as claimed: when the removal throws or the remove primitive is
\* absent, the mount still calls the injection primitive and succeeds; after
\* a successful mount the file at '/'+filename is the fetched payload,
\* replacing any file that was at that path.
C14_BestEffortRemoval ==
  [][MountStepNext =>
       /\ RemovalFailedNext =>
            (Count(last'.calls, {"FS_createDataFile"}) = 1 /\ last'.resolved)
       /\ MountedPayloadNext]_vars

\* C14 as amended: when the removal throws or the remove primitive is
\* absent, the mount still calls the injection primitive, once, and succeeds
\* if that call returns; after a successful mount the file at '/'+filename
\* is the fetched payload, replacing any file that was at that path.
C14_RemovalNeverBlocksInjection ==
  [][MountStepNext =>
       /\ RemovalFailedNext =>
            /\ Count(last'.calls, {"FS_createDataFile"}) = 1
            /\ last'.threw = "none" => last'.resolved
       /\ MountedPayloadNext]_vars

C14_Witness ==
  /\ last.op = "mountRomToFS"
  /\ last.resolved
  /\ "FS_unlink" \notin last.probe
  /\ \E j \in DOMAIN loads :
       /\ j # last.id
       /\ loads[j].mount = "resolved"
       /\ loads[j].url # loads[last.id].url
  /\ fs[AbsPath(last.result)] = ServerBytes(loads[last.id].url)

\* No load has a step of its pipeline left to take.
Settled ==
  \A i \in DOMAIN loads :
    loads[i].pc \notin {"polling", "timer", "fetching", "reading", "mounted"}

\* C15: load requests are never de-duplicated, dropped or superseded: once
\* the module is ready and everything has run its course, with no fetch and
\* no mount having failed, N requests have made exactly N mounts and N
\* launch attempts, one per request.
C15_NoRequestDropped ==
  (/\ phase = "initialized"
   /\ GateSignalsSeen
   /\ Settled
   /\ \A i \in DOMAIN loads :
        loads[i].res \notin {"http", "network"} /\ loads[i].mount # "threw") =>
    \A i \in DOMAIN loads :
      /\ loads[i].injects = 1
      /\ loads[i].pc = "done"

\* C16: the Filename a load derives from its resource reference, and passes
\* to mount and launch, is non-empty.
C16_FilenameNonEmpty ==
  \A i \in DOMAIN loads : loads[i].filename # <<>>

\* C17: a mobile-toggle click flips the 'mobile-mode' flag and nothing
\* else: the status, the module filesystem, the callback slot, the module
\* and every load pipeline are as they were and no entry point is called;
\* the second of two consecutive toggles restores the flag the first found.
C17_ToggleOnlyFlips ==
  [][last'.op = "toggle" =>
       /\ mobileMode' # mobileMode
       /\ UNCHANGED <<status, fs, slot, loads, phase, hasMain, defaultRomPath>>
       /\ last'.calls = <<>>
       /\ last.op = "toggle" => mobileMode' = last.result[1]]_vars

C17_Witness ==
  /\ last.op = "toggle"
  /\ last.result = <<TRUE>>
  /\ mobileMode = FALSE
  /\ events = 2

\* The filesystem calls of a mount step: the removal, if the primitive is
\* there, and the injection right after it, for the same path.
RemoveThenInjectNext ==
  LET inject == [fn |-> "FS_createDataFile",
                 args |-> <<"/", loads[last'.id].filename,
                            ServerBytes(loads[last'.id].url), TRUE, TRUE>>]
      remove == [fn |-> "FS_unlink", args |-> <<MountPathNext>>]
  IN last'.calls = IF "FS_unlink" \in last'.probe THEN <<remove, inject>>
                   ELSE <<inject>>

HoldsOwnPayloadNext ==
  /\ MountPathNext \in DOMAIN fs'
  /\ fs'[MountPathNext] = ServerBytes(loads[last'.id].url)

\* C18 as claimed: removal and injection of a mount are one step, nothing
\* else touches the filesystem, and so, however concurrent mounts of one
\* filename interleave, the file at '/'+filename is the complete payload of
\* the last mount to reach the step, never missing and never a mixture.
C18_RemoveInjectAtomic ==
  /\ [][fs' # fs => last'.op = "mountRomToFS"]_vars
  /\ [][MountStepNext => (RemoveThenInjectNext /\ HoldsOwnPayloadNext)]_vars

\* C18 as amended: removal and injection of a mount are one step, nothing
\* else touches the filesystem, and so, however concurrent mounts of one
\* filename interleave, the file at '/'+filename is the complete payload of
\* the last mount to reach the step whenever that mount's injection call
\* returned.
C18_RemoveInjectOneStep ==
  /\ [][fs' # fs => last'.op = "mountRomToFS"]_vars
  /\ [][MountStepNext =>
          /\ RemoveThenInjectNext
          /\ last'.threw = "none" => HoldsOwnPayloadNext]_vars

C18_Witness ==
  /\ last.op = "mountRomToFS"
  /\ last.resolved
  /\ "FS_unlink" \in last.probe
  /\ \E j \in DOMAIN loads :
       /\ j > last.id
       /\ loads[j].mount = "resolved"
       /\ loads[j].filename = loads[last.id].filename
       /\ ServerBytes(loads[j].url) # ServerBytes(loads[last.id].url)
  /\ fs[AbsPath(last.result)] = ServerBytes(loads[last.id].url)

\* The path a launch call was given ('/'+filename, inside a list for
\* callMain).
LaunchedPath(call) ==
  IF call.fn = "callMain" THEN call.args[1][1] ELSE call.args[1]

\* C19: when a load invocation calls a launch primitive with '/'+filename,
\* the file at that path holds the bytes that same invocation fetched,
\* however the pipelines of concurrent loads interleave.
C19_LaunchSeesOwnBytes ==
  (last.op = "startEmulator" /\ last.calls # <<>>) =>
    /\ LaunchedPath(last.calls[1]) = <<"/">> \o loads[last.id].filename
    /\ LaunchedPath(last.calls[1]) \in DOMAIN fs
    /\ fs[LaunchedPath(last.calls[1])] = ServerBytes(loads[last.id].url)

C19_Witness ==
  /\ last.op = "startEmulator"
  /\ last.calls # <<>>
  /\ \E j \in DOMAIN loads :
       /\ j # last.id
       /\ loads[j].pc = "reading"
       /\ loads[j].filename = loads[last.id].filename
       /\ ServerBytes(loads[j].url) # ServerBytes(loads[last.id].url)

\* The loads whose callback the step just taken invoked.
SignaledNext == {j \in DOMAIN loads : loads'[j].signals > loads[j].signals}

\* C20: a load request causes at most one fetch, one injection and one
\* launch call: its gate call invokes the callback at most once, after
\* which no timer, interval or chained wrapper of that call is left to
\* invoke it again.
C20_AtMostOncePerRequest ==
  /\ [](\A i \in DOMAIN loads :
          /\ loads[i].signals <= 1
          /\ loads[i].injects <= 1
          /\ loads[i].launches <= 1
          /\ loads[i].signals = 0 <=> loads[i].pc \in {"chained", "timer", "polling"}
          /\ loads[i].signals = 0 => (loads[i].res = "none" /\ loads[i].injects = 0)
          /\ loads[i].injects = 0 => loads[i].launches = 0)
  /\ [][/\ Count(last'.calls, {"fetch"}) = Cardinality(SignaledNext)
        /\ SignaledNext # {} => last'.op \in {"cb", "moduleInit"}
        /\ \A i \in DOMAIN loads :
             loads[i].signals > 0 =>
               loads'[i].pc \notin {"chained", "timer", "polling"}]_vars

C20_Witness ==
  /\ Len(loads) = 2
  /\ \A i \in DOMAIN loads :
       /\ loads[i].signals = 1
       /\ loads[i].injects = 1
       /\ loads[i].launches = 1
       /\ loads[i].pc = "done"

====
